---- MODULE Spec2Model ----
(***************************************************************************)
(* ebuspicloader: the exchange primitive (sendReceiveFrame), the command   *)
(* set, the erase / program / verify sequencer (flashPic) and the run of   *)
(* the tool from openSerial to the exit of the process (main).             *)
(*                                                                         *)
(* Every waitWrite / waitRead call of sendReceiveFrame is one step whose   *)
(* result (error, timeout, byte count, bytes delivered) is chosen by the   *)
(* environment.  flashPic and main are cut at their calls of               *)
(* sendReceiveFrame.                                                       *)
(*                                                                         *)
(* Spec is flashPic on its own, over many images; LiveSpec is Spec with    *)
(* the fairness of a sequential program; RunSpec is the whole run; FnSpec  *)
(* applies eraseFlash's frame construction and the configuration block     *)
(* encoding and decoding on their own, over many arguments.                *)
(***************************************************************************)
EXTENDS Integers, Sequences, FiniteSets, TLC

\* ------------------------------------------------------------------ bounds
\* Images span up to MaxBlocks whole write blocks (plus or minus one byte).
MaxBlocks == 2

\* ------------------------------------------------------- program constants
WRITE_FLASH_BLOCKSIZE == 32
ERASE_FLASH_BLOCKSIZE == 32
END_FLASH == 16384
STX == 85
READ_VERSION == 0
READ_FLASH == 1
WRITE_FLASH == 2
ERASE_FLASH == 3
READ_CONFIG == 6
WRITE_CONFIG == 7
CALC_CHECKSUM == 8
RESET_DEVICE == 9
MINOR_VERSION == 8
MAJOR_VERSION == 0
COMMAND_SUCCESS == 1
ERROR_ADDRESS_OUT_OF_RANGE == 254
FRAME_HEADER_LEN == 9
FRAME_MAX_LEN == FRAME_HEADER_LEN + 2 * WRITE_FLASH_BLOCKSIZE
END_FLASH_BYTES == END_FLASH * 2
END_BOOT == 1024
END_BOOT_BYTES == END_BOOT * 2

\* The guard key bytes of the mutating commands.
EE_KEY_1 == 85
EE_KEY_2 == 170

\* The greatest subnet length --mask takes, and the length that stands for DHCP.
MAX_MASK_LEN == 30
DHCP_MASK_LEN == 31

U8 == 256
U16 == 65536

\* ------------------------------------------------ the image cursor (intelhex)
\* An image is the sparse, address-ordered content of the hex file: bytes at
\* start .. start+len, "dense" (every address holds data) or "ends" (only the
\* first and the last address hold data), all of one value pattern.  len = -1
\* is the image without any data.

\* The position of the cursor behind the last data byte.
EndIt == -1

ImageEmpty(im) == im.len < 0

\* bool startAddress(&a): the lowest address holding data.
StartAddress(im) == im.start

\* bool endAddress(&a): the highest address holding data (inclusive).
EndAddress(im) == im.start + im.len

HasData(im, a) ==
    /\ ~ImageEmpty(im)
    /\ a >= im.start
    /\ a <= im.start + im.len
    /\ (im.pat = "dense" \/ a = im.start \/ a = im.start + im.len)

\* The byte the image holds at address a.
DataAt(im, a) ==
    CASE im.val = "zero" -> 0
      [] im.val = "one"  -> 1
      [] OTHER           -> IF a % 2 = 1 THEN 63 ELSE 255

\* begin(): the cursor at the first data byte.
Begin(im) == IF ImageEmpty(im) THEN EndIt ELSE im.start

\* currentAddress(): the address under the cursor.  Behind the last byte the
\* library dereferences the end of its map; what it reads there is `stale`.
CurrentAddress(it, stale) == IF it = EndIt THEN stale ELSE it

\* getData(&value): TRUE and the byte under the cursor, FALSE behind the end.
GetDataOk(it) == it /= EndIt

\* incrementAddress(): the cursor at the next address holding data.
IncrementAddress(im, it) ==
    IF it = EndIt \/ it >= EndAddress(im) THEN EndIt
    ELSE IF im.pat = "dense" THEN it + 1
    ELSE EndAddress(im)

\* ------------------------------------------------------------ frame_t
\* The union: buffer[73]; the fields are views of the buffer (index + 1).
ZeroFrame == [i \in 1..FRAME_MAX_LEN |-> 0]

Command(f) == f[1]
DataLength(f) == f[2] + U8 * f[3]
KeyOne(f) == f[4]
KeyTwo(f) == f[5]
AddressWord(f) == f[6] + U8 * f[7]
Data(f, i) == f[FRAME_HEADER_LEN + 1 + i]

\* memset, then command, data_length (little endian), keys, address_L/H, data.
BuildFrame(cmd, dlen, k1, k2, address, payload) ==
    [i \in 1..FRAME_MAX_LEN |->
        CASE i = 1 -> cmd
          [] i = 2 -> (dlen % U16) % U8
          [] i = 3 -> (dlen % U16) \div U8
          [] i = 4 -> k1
          [] i = 5 -> k2
          [] i = 6 -> address % U8
          [] i = 7 -> (address \div U8) % U8
          [] i > FRAME_HEADER_LEN /\ i - FRAME_HEADER_LEN <= Len(payload)
                   -> payload[i - FRAME_HEADER_LEN]
          [] OTHER -> 0]

\* eraseFlash: data_length is a count of erase blocks.
\* A variant with the sum taken in 16 bits.
EraseBlocksMutShort(len) == ((len + ERASE_FLASH_BLOCKSIZE - 1) % U16) \div ERASE_FLASH_BLOCKSIZE
EraseBlocks(len) == (len + ERASE_FLASH_BLOCKSIZE - 1) \div ERASE_FLASH_BLOCKSIZE

EraseFrame(address, len) ==
    BuildFrame(ERASE_FLASH, EraseBlocks(len % U16), EE_KEY_1, EE_KEY_2, address % U16, <<>>)

WriteFrame(address, len, data) ==
    BuildFrame(WRITE_FLASH, len, EE_KEY_1, EE_KEY_2, address % U16, SubSeq(data, 1, len))

ChecksumFrame(address, len) ==
    BuildFrame(CALC_CHECKSUM, len % U16, 0, 0, address % U16, <<>>)

VersionFrame == BuildFrame(READ_VERSION, 0, 0, 0, 0, <<>>)

ReadConfigFrame(address, len) ==
    BuildFrame(READ_CONFIG, len % U16, 0, 0, address % U16, <<>>)

WriteConfigFrame(address, len, bytes) ==
    BuildFrame(WRITE_CONFIG, len % U16, EE_KEY_1, EE_KEY_2, address % U16, SubSeq(bytes, 1, len))

ReadFlashFrame(address) == BuildFrame(READ_FLASH, 16, 0, 0, address % U16, <<>>)

\* A variant of resetDevice that sets the guard keys.
ResetFrameMutKeys == BuildFrame(RESET_DEVICE, 0, EE_KEY_1, EE_KEY_2, 0, <<>>)
ResetFrame == BuildFrame(RESET_DEVICE, 0, 0, 0, 0, <<>>)

\* ------------------------------------------------------ flashPic, pure parts
\* The address range check of flashPic.
ValidRangeMutEnd(startAddr, endAddr) ==
    ~(startAddr < END_BOOT_BYTES \/ endAddr > END_FLASH_BYTES
      \/ endAddr < startAddr \/ startAddr % 16 /= 0)
ValidRange(startAddr, endAddr) ==
    ~(startAddr < END_BOOT_BYTES \/ endAddr >= END_FLASH_BYTES
      \/ endAddr < startAddr \/ startAddr % 16 /= 0)

\* value = (pos&0x1) == 1 ? 0x3f : 0xff
PadValue(pos) == IF pos % 2 = 1 THEN 63 ELSE 255

\* checkSum += ((uint16_t)value) << ((pos&0x1)*8), in 16 bits
ChecksumAdd(sum, value, pos) ==
    (sum + (IF pos % 2 = 1 THEN value * U8 ELSE value)) % U16

\* The for loop over the 32 positions of one block, from position pos on.
\* st = [nextAddr, it, buf, blank, checkSum]; the state behind one position
\* is a value before the next position is entered.
RECURSIVE FillFrom(_, _, _, _)
FillFrom(im, pos, st, stale) ==
    IF pos >= WRITE_FLASH_BLOCKSIZE THEN st
    ELSE LET addr == CurrentAddress(st.it, stale)
             hit == addr = st.nextAddr /\ GetDataOk(st.it)
             value == IF hit THEN DataAt(im, st.it) ELSE PadValue(pos)
             next == [nextAddr |-> st.nextAddr + 1,
                      it |-> IF hit THEN IncrementAddress(im, st.it) ELSE st.it,
                      buf |-> Append(st.buf, value),
                      blank |-> st.blank /\ ~hit,
                      checkSum |-> ChecksumAdd(st.checkSum, value, pos)]
         IN CHOOSE r \in {FillFrom(im, pos + 1, s, stale) : s \in {next}} : TRUE

\* A variant that takes a block for blank when it holds pad values only.
FillBlockMutByValue(im, nextAddr0, it0, sum0, stale) ==
    LET r == FillFrom(im, 0, [nextAddr |-> nextAddr0, it |-> it0, buf |-> <<>>,
                              blank |-> TRUE, checkSum |-> sum0], stale)
    IN [r EXCEPT !.blank = \A p \in 1..Len(r.buf) : r.buf[p] = PadValue(p - 1)]
\* A variant that leaves the bytes of a blank block out of the checksum.
FillBlockMutSkipSum(im, nextAddr0, it0, sum0, stale) ==
    LET r == FillFrom(im, 0, [nextAddr |-> nextAddr0, it |-> it0, buf |-> <<>>,
                              blank |-> TRUE, checkSum |-> sum0], stale)
    IN IF r.blank THEN [r EXCEPT !.checkSum = sum0] ELSE r
\* One pass of the while loop body up to the blank test.
FillBlock(im, nextAddr0, it0, sum0, stale) ==
    FillFrom(im, 0, [nextAddr |-> nextAddr0, it |-> it0, buf |-> <<>>,
                     blank |-> TRUE, checkSum |-> sum0], stale)

\* The three tests that end or continue flashPic after a command.
EraseFailedMutIgnore(eraseRes) == FALSE
EraseFailed(eraseRes) == eraseRes /= 0

WriteFailedMutAlways(res) == TRUE
WriteFailed(res) == res /= 0

\* calcChecksum(fd, startAddr/2, blockStart-startAddr): the length argument.
ChecksumLenMutWords(blockStart0, startAddr) == (blockStart0 - startAddr) \div 2
ChecksumLen(blockStart0, startAddr) == blockStart0 - startAddr

\* What the command set returns from the result of sendReceiveFrame and the
\* frame buffer it leaves.
\* A variant of eraseFlash that returns -1 for every status but success.
EraseFlashResultMutMinusOne(r, f) ==
    IF r /= 0 THEN r
    ELSE IF Data(f, 0) /= COMMAND_SUCCESS THEN -1 ELSE 0
EraseFlashResult(r, f) ==
    IF r /= 0 THEN r
    ELSE IF Data(f, 0) /= COMMAND_SUCCESS THEN 0 - Data(f, 0) - 1 ELSE 0

WriteFlashResult(r, f) ==
    IF r /= 0 THEN r
    ELSE IF Data(f, 0) /= COMMAND_SUCCESS THEN -1 ELSE 0

CalcChecksumResult(r, f) ==
    IF r /= 0 THEN r ELSE Data(f, 0) + U8 * Data(f, 1)

\* A variant of readVersion without the test of the version bytes.
ReadVersionResultMutNoCheck(r, f) == r
ReadVersionResult(r, f) ==
    IF r /= 0 THEN r
    ELSE IF Data(f, 0) /= MINOR_VERSION \/ Data(f, 1) /= MAJOR_VERSION THEN -1 ELSE 0

WriteConfigResult(r, f) ==
    IF r /= 0 THEN r
    ELSE IF Data(f, 0) /= COMMAND_SUCCESS THEN -1 ELSE 0

\* sendReceiveFrame: the test of the echoed command.
UnexpectedAnswerMutNever(answer, request) == FALSE
UnexpectedAnswer(answer, request) == answer /= request

\* sendReceiveFrame: what is returned when waitWrite of the sync byte gave cnt.
SyncWriteReturn(cnt) == cnt

\* sendReceiveFrame: pos += cnt, in the write loop and in the read loop.
AdvanceMutStay(p, cnt) == p
Advance(p, cnt) == p + cnt

\* ------------------------------------------------------------------ inputs
LenOffsets ==
    {n \in {k * WRITE_FLASH_BLOCKSIZE + d : k \in 0..MaxBlocks, d \in {-1, 0, 1}} : n >= 0}

Image(s, l, p, v) == [start |-> s, len |-> l, pat |-> p, val |-> v]

\* Images that start at the boot block boundary.
BootImages ==
    {Image(END_BOOT_BYTES, l, p, v) :
        l \in LenOffsets, p \in {"dense", "ends"}, v \in {"zero", "one", "pad"}}

\* Images at and around the limits of the address range check, and the
\* image without data.
EdgeImages ==
    {Image(s, l, "dense", "one") :
        s \in {0, END_BOOT_BYTES - 16, END_BOOT_BYTES + 8, END_BOOT_BYTES + 16},
        l \in {0, WRITE_FLASH_BLOCKSIZE + 1}}
    \cup {Image(END_BOOT_BYTES, END_FLASH_BYTES - END_BOOT_BYTES - d, "ends", "one") :
            d \in {0, 1, 2}}
    \cup {Image(0, -1, "dense", "zero")}

Images == BootImages \cup EdgeImages

\* What a read behind the end of the image map may give as address.
StaleAddrs(next) == {0, next + 1}

\* Byte counts a waitWrite / waitRead of up to n bytes may transfer.
Chunks(n) == {1, n}

\* A command other than c.
OtherCommand(c) == IF c = READ_VERSION THEN RESET_DEVICE ELSE READ_VERSION

\* --------------------------------------------------------------- the state
VARIABLES
    img,                \* the parsed hex file (ih)
    pc,                 \* flashPic: "start", "erase", "loop", "write1", "write2", "checksum", "done"
    result,             \* flashPic's return value: <<>> while running, <<TRUE>>, <<FALSE>>
    msg,                \* the last message flashPic printed
    msgArg,             \* <<>> or <<the number printed behind that message>>
    blockStart, nextAddr, ihIt, checkSum, buf,   \* flashPic's locals
    eraseRes,           \* <<>> or <<the value eraseFlash returned>>
    xpc,                \* sendReceiveFrame: "idle", "syncW", "dataW", "syncR", "dataR", "tail", "ret"
    frame, sendDataLen, fixReceiveDataLen, hideErrors,
    writeCommand, len, pos, ret,                 \* sendReceiveFrame's locals
    xg,                 \* the exchange as the transport saw it (history)
    issued,             \* how many frames of each command were handed to sendReceiveFrame
    wlog,               \* the write-flash frames sent to one address: the address, their number, the first
    nblocks,            \* blocks the while loop has completed
    erased,             \* <<>> or <<first word, word behind the last>> of the erase frame
    acked,              \* the write-flash frames the device answered in full with status 0x01:
                        \* their word address and payload
    late,               \* the link: <<>>, or <<the command of an earlier request whose answer
                        \* was not read and is still to come or waits on the line>>
    mpc,                \* main: "open", the call it is at, "exit", "crashed"
    opts,               \* the program arguments: verbose, flash (flashFile), setIp, setDhcp,
                        \* setMacFromIp, reset
    data,               \* main's data[0x10]: the bytes [0x2*2], [0x2*2+1], [0x3*2+1] it tests
    success,            \* main's success
    exitStatus,         \* <<>> or <<the exit status of the process>>
    closed,             \* how often closeSerial was called
    tty,                \* the terminal settings of the port: "original" or "raw"
    verOk,              \* a read-version exchange was completed with the expected version (history)
    fn,                 \* <<>>, or the operation applied on its own and its arguments
    fnOut               \* <<>>, or <<the value that operation gave>>

seqVars == <<pc, result, msg, msgArg, blockStart, nextAddr, ihIt, checkSum, buf, eraseRes>>
engVars == <<xpc, frame, sendDataLen, fixReceiveDataLen, hideErrors, writeCommand, len, pos, ret>>
histVars == <<xg, issued, wlog, nblocks, erased, acked>>
mainVars == <<mpc, opts, data, success, exitStatus, closed, tty, verOk>>
pureVars == <<fn, fnOut>>
vars == <<img, seqVars, engVars, histVars, late, mainVars, pureVars>>

Commands ==
    {READ_VERSION, READ_FLASH, WRITE_FLASH, ERASE_FLASH, READ_CONFIG, WRITE_CONFIG,
     CALC_CHECKSUM, RESET_DEVICE}

NoExchange ==
    [req |-> ZeroFrame, fix |-> 0, nw |-> 0, nr |-> 0, sync |-> -1, rcmd |-> -1,
     own |-> TRUE, err |-> FALSE]

\* flashPic is entered, no exchange is under way, the line is quiet.
InitFlashPic ==
    /\ pc = "start" /\ result = <<>> /\ msg = "" /\ msgArg = <<>>
    /\ blockStart = 0 /\ nextAddr = 0 /\ ihIt = EndIt /\ checkSum = 0 /\ buf = <<>>
    /\ eraseRes = <<>>
    /\ xpc = "idle" /\ frame = ZeroFrame /\ sendDataLen = 0 /\ fixReceiveDataLen = 0
    /\ hideErrors = FALSE /\ writeCommand = 0 /\ len = 0 /\ pos = 0 /\ ret = 0
    /\ xg = NoExchange
    /\ issued = [c \in Commands |-> 0]
    /\ wlog = [addr |-> -1, n |-> 0, first |-> ZeroFrame] /\ nblocks = 0 /\ erased = <<>>
    /\ acked = {}
    /\ late = <<>>
    /\ fn = <<>> /\ fnOut = <<>>

\* main has passed the version check and calls flashPic with some hex file.
Init ==
    /\ img \in Images
    /\ InitFlashPic
    /\ mpc = "flashPic"
    /\ opts = [verbose |-> FALSE, flash |-> TRUE, setIp |-> FALSE, setDhcp |-> FALSE,
               setMacFromIp |-> FALSE, reset |-> FALSE]
    /\ data = <<0, 0, 0>> /\ success = TRUE /\ exitStatus = <<>> /\ closed = 0
    /\ tty = "raw" /\ verOk = TRUE

\* ------------------------------------------------------- sendReceiveFrame
\* The call: the caller's frame and arguments; nothing is transferred yet.
SendReceiveFrame(f, sdl, fix, hide) ==
    /\ xpc' = "syncW" /\ frame' = f /\ sendDataLen' = sdl /\ fixReceiveDataLen' = fix
    /\ hideErrors' = hide /\ writeCommand' = 0 /\ len' = 0 /\ pos' = 0 /\ ret' = 0
    /\ xg' = [req |-> f, fix |-> fix, nw |-> 0, nr |-> 0, sync |-> -1, rcmd |-> -1,
              own |-> TRUE, err |-> FALSE]
    /\ issued' = [issued EXCEPT ![Command(f)] = @ + 1]
    /\ wlog' = IF Command(f) /= WRITE_FLASH THEN wlog
               ELSE IF AddressWord(f) = wlog.addr THEN [wlog EXCEPT !.n = @ + 1]
               ELSE [addr |-> AddressWord(f), n |-> 1, first |-> f]
    /\ erased' = IF Command(f) /= ERASE_FLASH THEN erased
                 ELSE <<AddressWord(f), AddressWord(f) + ERASE_FLASH_BLOCKSIZE * DataLength(f)>>

\* The caller has taken the result: the frame goes out of scope.
EngineIdle ==
    /\ xpc' = "idle" /\ frame' = ZeroFrame /\ sendDataLen' = 0 /\ fixReceiveDataLen' = 0
    /\ hideErrors' = FALSE /\ writeCommand' = 0 /\ len' = 0 /\ pos' = 0 /\ ret' = 0
    /\ xg' = NoExchange

Return(r) == xpc' = "ret" /\ ret' = r

\* A transport call failed (poll reports an error or a hangup, read or write fails).
TransportError(cnt) == Return(cnt) /\ xg' = [xg EXCEPT !.err = TRUE]

\* The request went out in full and the host stops reading before it has the
\* whole answer: the device may be slow and (the rest of) its answer still to
\* come, or it stays silent.
LateChoices == IF late /= <<>> THEN {late} ELSE {<<>>, <<Command(xg.req)>>}

\* waitWrite(&ch, 1): the sync byte.
WriteSync ==
    /\ xpc = "syncW"
    /\ \E cnt \in {-1, 0, 1} :
        IF cnt < 0
        THEN /\ TransportError(SyncWriteReturn(cnt))
             /\ UNCHANGED <<writeCommand, len, pos>>
        ELSE IF cnt = 0
        THEN /\ Return(SyncWriteReturn(cnt))
             /\ UNCHANGED <<writeCommand, len, pos, xg>>
        ELSE /\ writeCommand' = Command(frame)
             /\ len' = FRAME_HEADER_LEN + sendDataLen
             /\ pos' = 0
             /\ xpc' = "dataW"
             /\ xg' = [xg EXCEPT !.nw = @ + 1]
             /\ UNCHANGED ret
    /\ UNCHANGED <<img, pureVars, seqVars, frame, sendDataLen, fixReceiveDataLen, hideErrors>>
    /\ UNCHANGED <<issued, wlog, acked, nblocks, erased, late, mainVars>>

\* One pass of the write loop: waitWrite(frame.buffer+pos, len-pos).
WriteData ==
    /\ xpc = "dataW"
    /\ \E cnt \in {-1, 0} \cup Chunks(len - pos) :
        IF cnt < 0 THEN TransportError(cnt) /\ UNCHANGED pos
        ELSE IF cnt = 0 THEN Return(-1) /\ UNCHANGED <<pos, xg>>
        ELSE /\ pos' = Advance(pos, cnt)
             /\ xg' = [xg EXCEPT !.nw = @ + cnt]
             /\ xpc' = IF Advance(pos, cnt) < len THEN "dataW" ELSE "syncR"
             /\ UNCHANGED ret
    /\ UNCHANGED <<img, pureVars, seqVars, frame, sendDataLen, fixReceiveDataLen, hideErrors>>
    /\ UNCHANGED <<writeCommand, len, issued, wlog, acked, nblocks, erased, late, mainVars>>

\* waitRead(&ch, 1): the sync byte of the answer.  What is read is the head
\* of the line: of a late answer, if there is one.
ReadSync ==
    /\ xpc = "syncR"
    /\ \E cnt \in {-1, 0, 1}, ch \in {STX, 0} :
        IF cnt < 0 THEN TransportError(cnt) /\ UNCHANGED <<pos, len, late>>
        ELSE IF cnt = 0
        THEN /\ Return(-1) /\ UNCHANGED <<pos, len, xg>>
             /\ late' \in LateChoices
        ELSE /\ IF ch /= STX
                THEN /\ Return(-1) /\ UNCHANGED <<pos, len>>
                     /\ late' \in LateChoices
                ELSE /\ len' = FRAME_HEADER_LEN
                     /\ pos' = 0
                     /\ xpc' = "dataR"
                     /\ UNCHANGED <<ret, late>>
             /\ xg' = [xg EXCEPT !.sync = ch, !.own = (late = <<>>)]
    /\ UNCHANGED <<img, pureVars, seqVars, frame, sendDataLen, fixReceiveDataLen, hideErrors>>
    /\ UNCHANGED <<writeCommand, issued, wlog, acked, nblocks, erased, mainVars>>

\* The byte the device delivers for buffer position p (from 0): the command,
\* the low byte of data_length, data[0], data[1], data[4], data[5] and data[7]
\* are its choice, the rest of the answer is zero.
RespByte(p, c) ==
    CASE p = 0 -> c.cmd
      [] p = 1 -> c.dl
      [] p = FRAME_HEADER_LEN -> c.d0
      [] p = FRAME_HEADER_LEN + 1 -> c.d1
      [] p = FRAME_HEADER_LEN + 4 -> c.d4
      [] p = FRAME_HEADER_LEN + 5 -> c.d57
      [] p = FRAME_HEADER_LEN + 7 -> c.d57
      [] OTHER -> 0

\* The answers the device may give in the bytes p .. p+cnt-1: the command of
\* the request it answers or another one; for read-flash a payload length of
\* 0x10 or one more than fits, and a payload with the bootloader's or the
\* firmware's signature; a version, a status, a checksum or a configuration
\* byte as the command asks.
RespChoices(p, cnt) ==
    [cmd : IF p = 0
           THEN (IF xg.own THEN {writeCommand, OtherCommand(writeCommand)} ELSE {late[1]})
           ELSE {0},
     dl : IF p <= 1 /\ 1 < p + cnt /\ writeCommand = READ_FLASH
          THEN {16, 2 * WRITE_FLASH_BLOCKSIZE + 1} ELSE {0},
     d0 : IF p <= FRAME_HEADER_LEN /\ FRAME_HEADER_LEN < p + cnt
          THEN CASE writeCommand = READ_VERSION -> {MINOR_VERSION, COMMAND_SUCCESS}
                 [] writeCommand \in {READ_CONFIG, READ_FLASH} -> {COMMAND_SUCCESS}
                 [] writeCommand \in {WRITE_CONFIG, RESET_DEVICE}
                        -> {COMMAND_SUCCESS, ERROR_ADDRESS_OUT_OF_RANGE}
                 [] OTHER -> {COMMAND_SUCCESS, ERROR_ADDRESS_OUT_OF_RANGE, checkSum % U8}
          ELSE {0},
     d1 : IF p <= FRAME_HEADER_LEN + 1 /\ FRAME_HEADER_LEN + 1 < p + cnt
          THEN CASE writeCommand = READ_VERSION -> {MAJOR_VERSION, 1}
                 [] writeCommand = READ_CONFIG -> {63, 24}
                 [] OTHER -> {0, checkSum \div U8}
          ELSE {0},
     d4 : IF p <= FRAME_HEADER_LEN + 4 /\ FRAME_HEADER_LEN + 4 < p + cnt
             /\ writeCommand = READ_FLASH
          THEN {171, 174} ELSE {0},
     d57 : IF writeCommand = READ_FLASH THEN {52} ELSE {0}]

\* One pass of the read loop: waitRead(frame.buffer+pos, len-pos).  Bytes
\* behind buffer[72] do not land in the frame.
ReadData ==
    /\ xpc = "dataR"
    /\ \E cnt \in {-1, 0} \cup Chunks(len - pos) :
        IF cnt < 0
        THEN TransportError(cnt) /\ UNCHANGED <<frame, pos, len, fixReceiveDataLen, late>>
        ELSE IF cnt = 0
        THEN /\ Return(-1) /\ UNCHANGED <<frame, pos, len, fixReceiveDataLen, xg>>
             /\ late' \in LateChoices
        ELSE \E c \in RespChoices(pos, cnt) :
            LET f2 == [i \in 1..FRAME_MAX_LEN |->
                          IF i > pos /\ i <= pos + cnt THEN RespByte(i - 1, c) ELSE frame[i]]
                pos2 == Advance(pos, cnt)
                len2 == IF pos2 = FRAME_HEADER_LEN
                        THEN len + (IF fixReceiveDataLen < 0 THEN DataLength(f2)
                                    ELSE fixReceiveDataLen)
                        ELSE len
            IN /\ frame' = f2
               /\ pos' = pos2
               /\ len' = len2
               /\ fixReceiveDataLen' = IF pos2 = FRAME_HEADER_LEN THEN 0 ELSE fixReceiveDataLen
               /\ xg' = [xg EXCEPT !.nr = @ + cnt,
                                    !.rcmd = IF pos = 0 THEN c.cmd ELSE @]
               /\ xpc' = IF pos2 < len2 THEN "dataR" ELSE "tail"
               /\ UNCHANGED <<ret, late>>
    /\ UNCHANGED <<img, pureVars, seqVars, sendDataLen, hideErrors>>
    /\ UNCHANGED <<writeCommand, issued, wlog, acked, nblocks, erased, mainVars>>

\* waitRead(dummy, 4), whatever it gives, and the test of the echoed command.
\* After a read behind the end of the buffer the locals may be overwritten:
\* the test goes either way.  When a late answer was taken for this
\* exchange's, its own answer is the late one from now on.
ReadTail ==
    /\ xpc = "tail"
    /\ \E cnt \in {-1, 0, 4} :
        IF pos > FRAME_MAX_LEN
        THEN \E r \in {-1, 0} : Return(r)
        ELSE Return(IF UnexpectedAnswer(Command(frame), writeCommand) THEN -1 ELSE 0)
    /\ late' = IF xg.own THEN late ELSE <<Command(xg.req)>>
    /\ UNCHANGED <<img, pureVars, seqVars, frame, sendDataLen, fixReceiveDataLen, hideErrors>>
    /\ UNCHANGED <<writeCommand, len, pos, histVars, mainVars>>

\* ------------------------------------------------------------------ flashPic
\* A message, the number printed behind it, return false.
FailWith(m, n) == pc' = "done" /\ result' = <<FALSE>> /\ msg' = m /\ msgArg' = n

Fail(m) == FailWith(m, <<>>)

\* From the entry to the call of eraseFlash: the file is read, the range is
\* checked, the cursor is set to the first byte.
FlashPicStart ==
    /\ mpc = "flashPic" /\ pc = "start"
    /\ IF ImageEmpty(img)
       THEN /\ Fail("unable to read file")
            /\ UNCHANGED <<blockStart, nextAddr, ihIt, checkSum, buf, eraseRes, engVars, histVars>>
       ELSE IF ~ValidRange(StartAddress(img), EndAddress(img))
       THEN /\ Fail("invalid address range")
            /\ UNCHANGED <<blockStart, nextAddr, ihIt, checkSum, buf, eraseRes, engVars, histVars>>
       ELSE IF CurrentAddress(Begin(img), 0) /= END_BOOT_BYTES
       THEN /\ FailWith("unexpected start address in file", <<CurrentAddress(Begin(img), 0)>>)
            /\ ihIt' = Begin(img)
            /\ nextAddr' = CurrentAddress(Begin(img), 0)
            /\ UNCHANGED <<blockStart, checkSum, buf, eraseRes, engVars, histVars>>
       ELSE /\ ihIt' = Begin(img)
            /\ nextAddr' = CurrentAddress(Begin(img), 0)
            /\ blockStart' = END_BOOT_BYTES
            /\ checkSum' = 0
            /\ LET f == EraseFrame(END_BOOT_BYTES \div 2,
                                   (EndAddress(img) - END_BOOT_BYTES) \div 2)
               IN SendReceiveFrame(f, 0, 1, FALSE)
            /\ pc' = "erase"
            /\ UNCHANGED <<result, msg, msgArg, buf, eraseRes, nblocks, acked>>
    /\ UNCHANGED <<img, pureVars, late, mainVars>>

\* eraseFlash has returned.
EraseReturn ==
    /\ pc = "erase" /\ xpc = "ret"
    /\ LET res == EraseFlashResult(ret, frame)
       IN /\ eraseRes' = <<res>>
          /\ IF EraseFailed(res)
             THEN FailWith("erasing flash failed", <<0 - res - 1>>) /\ UNCHANGED <<engVars, xg>>
             ELSE pc' = "loop" /\ EngineIdle /\ UNCHANGED <<result, msg, msgArg>>
    /\ UNCHANGED <<img, pureVars, blockStart, nextAddr, ihIt, checkSum, buf>>
    /\ UNCHANGED <<issued, wlog, acked, nblocks, erased, late, mainVars>>

\* One pass of the while loop up to the first writeFlash call, or, for a
\* blank block, to the end of the pass.
ProcessBlock ==
    /\ pc = "loop" /\ blockStart < EndAddress(img)
    /\ \E stale \in StaleAddrs(nextAddr) :
        LET r == FillBlock(img, nextAddr, ihIt, checkSum, stale)
        IN /\ nextAddr' = r.nextAddr
           /\ ihIt' = r.it
           /\ checkSum' = r.checkSum
           /\ buf' = r.buf
           /\ IF ~r.blank
              THEN /\ SendReceiveFrame(WriteFrame(blockStart \div 2, WRITE_FLASH_BLOCKSIZE, r.buf),
                                       WRITE_FLASH_BLOCKSIZE, 1, TRUE)
                   /\ pc' = "write1"
                   /\ UNCHANGED <<blockStart, nblocks, acked>>
              ELSE /\ blockStart' = blockStart + WRITE_FLASH_BLOCKSIZE
                   /\ nblocks' = nblocks + 1
                   /\ UNCHANGED <<pc, engVars, xg, issued, wlog, acked, erased>>
    /\ UNCHANGED <<img, pureVars, result, msg, msgArg, eraseRes, late, mainVars>>

\* The write-flash exchange that has returned, added to those the device
\* acknowledged if its answer was read in full and carries COMMAND_SUCCESS.
Acknowledged ==
    IF /\ xg.nw = 1 + FRAME_HEADER_LEN + sendDataLen /\ xg.sync = STX
       /\ xg.nr = FRAME_HEADER_LEN + xg.fix /\ xg.rcmd = WRITE_FLASH
       /\ Data(frame, 0) = COMMAND_SUCCESS
    THEN acked \cup {[addr |-> AddressWord(xg.req),
                      payload |-> [i \in 1..DataLength(xg.req) |-> Data(xg.req, i - 1)]]}
    ELSE acked

\* The first writeFlash of a block has returned.
Write1Return ==
    /\ pc = "write1" /\ xpc = "ret"
    /\ acked' = Acknowledged
    /\ IF WriteFailed(WriteFlashResult(ret, frame))
       THEN /\ SendReceiveFrame(WriteFrame(blockStart \div 2, WRITE_FLASH_BLOCKSIZE, buf),
                                WRITE_FLASH_BLOCKSIZE, 1, FALSE)
            /\ pc' = "write2"
            /\ UNCHANGED <<blockStart, nblocks>>
       ELSE /\ blockStart' = blockStart + WRITE_FLASH_BLOCKSIZE
            /\ nblocks' = nblocks + 1
            /\ pc' = "loop"
            /\ EngineIdle
            /\ UNCHANGED <<issued, wlog, erased>>
    /\ UNCHANGED <<img, pureVars, result, msg, msgArg, nextAddr, ihIt, checkSum, buf, eraseRes>>
    /\ UNCHANGED <<late, mainVars>>

\* The second writeFlash of a block has returned.
Write2Return ==
    /\ pc = "write2" /\ xpc = "ret"
    /\ acked' = Acknowledged
    /\ IF WriteFailed(WriteFlashResult(ret, frame))
       THEN /\ FailWith("unable to write flash", <<blockStart \div 2>>)
            /\ UNCHANGED <<blockStart, nblocks, engVars, xg>>
       ELSE /\ blockStart' = blockStart + WRITE_FLASH_BLOCKSIZE
            /\ nblocks' = nblocks + 1
            /\ pc' = "loop"
            /\ EngineIdle
            /\ UNCHANGED <<result, msg, msgArg>>
    /\ UNCHANGED <<img, pureVars, nextAddr, ihIt, checkSum, buf, eraseRes>>
    /\ UNCHANGED <<issued, wlog, erased, late, mainVars>>

\* The while loop has ended: calcChecksum is called.
CallChecksum ==
    /\ pc = "loop" /\ ~(blockStart < EndAddress(img))
    /\ SendReceiveFrame(ChecksumFrame(StartAddress(img) \div 2,
                                      ChecksumLen(blockStart, StartAddress(img))),
                        0, 2, FALSE)
    /\ pc' = "checksum"
    /\ UNCHANGED <<img, pureVars, result, msg, msgArg, blockStart, nextAddr, ihIt, checkSum, buf, eraseRes>>
    /\ UNCHANGED <<nblocks, acked, late, mainVars>>

\* calcChecksum has returned.
ChecksumReturn ==
    /\ pc = "checksum" /\ xpc = "ret"
    /\ LET picSum == CalcChecksumResult(ret, frame)
       IN IF picSum < 0 THEN Fail("unable to read checksum")
          ELSE IF picSum /= checkSum THEN Fail("unexpected checksum")
          ELSE /\ pc' = "done" /\ result' = <<TRUE>>
               /\ msg' = "flashing succeeded" /\ msgArg' = <<>>
    /\ UNCHANGED <<img, pureVars, blockStart, nextAddr, ihIt, checkSum, buf, eraseRes, engVars, histVars>>
    /\ UNCHANGED <<late, mainVars>>

\* ---------------------------------------------------------------------- main
\* The calls of main in program order; "end" is closeSerial and return.
Steps ==
    <<"version", "cfgUser", "cfgRev", "cfgWords", "cfgMui", "cfgEui",
      "flash0", "sum0", "flashB", "sumB", "ip1", "ip2",
      "flashPic", "wcfg", "ip3", "ip4", "reset", "end">>

StepIndex(l) == CHOOSE i \in 1..Len(Steps) : Steps[i] = l

\* data[0x2*2] == 0xab && data[0x2*2+1] == 0x34 && data[0x3*2+1] == 0x34
BootSig(d) == d[1] = 171 /\ d[2] = 52 /\ d[3] = 52

\* data[0x2*2] == 0xae && data[0x2*2+1] == 0x34 && data[0x3*2+1] == 0x34
FirmSig(d) == d[1] = 174 /\ d[2] = 52 /\ d[3] = 52

\* useMUI = (configData[1]&0x20) != 0
UseMUI(b) == (b \div 32) % 2 = 1

\* Whether main makes the call l: d is data, mui and wok are what
\* readIpSettings and writeIpSettings have just found, succ is success.
\* A variant that resets the device whenever reset was requested.
WantedMutResetAlways(l, d, mui, wok, succ) ==
    CASE l \in {"cfgUser", "cfgWords", "cfgMui", "cfgEui"} -> opts.verbose
      [] l = "sum0" -> BootSig(d)
      [] l = "sumB" -> FirmSig(d)
      [] l \in {"ip2", "ip4"} -> mui
      [] l = "flashPic" -> opts.flash
      [] l = "wcfg" -> opts.setIp \/ opts.setDhcp
      [] l = "ip3" -> wok
      [] l = "reset" -> opts.reset
      [] OTHER -> TRUE
Wanted(l, d, mui, wok, succ) ==
    CASE l \in {"cfgUser", "cfgWords", "cfgMui", "cfgEui"} -> opts.verbose
      [] l = "sum0" -> BootSig(d)
      [] l = "sumB" -> FirmSig(d)
      [] l \in {"ip2", "ip4"} -> mui
      [] l = "flashPic" -> opts.flash
      [] l = "wcfg" -> opts.setIp \/ opts.setDhcp
      [] l = "ip3" -> wok
      [] l = "reset" -> opts.reset /\ succ
      [] OTHER -> TRUE

RECURSIVE NextStep(_, _, _, _, _)
NextStep(i, d, mui, wok, succ) ==
    IF Wanted(Steps[i], d, mui, wok, succ) THEN Steps[i]
    ELSE NextStep(i + 1, d, mui, wok, succ)

\* closeSerial(fd), and the process ends with the given status.
Finish(status) ==
    /\ mpc' = "exit" /\ exitStatus' = <<status>>
    /\ closed' = closed + 1 /\ tty' = "original"

\* main goes on behind the call l, up to its next call or to its end.
GoOn(l, d, mui, wok, succ) ==
    LET n == NextStep(StepIndex(l) + 1, d, mui, wok, succ)
    IN IF n = "end" THEN Finish(0)
       ELSE mpc' = n /\ UNCHANGED <<exitStatus, closed, tty>>

\* openSerial: no handle and exit(EXIT_FAILURE), or the port is open, locked
\* and set raw, the settings it had are saved.
OpenSerial ==
    /\ mpc = "open"
    /\ \E ok \in BOOLEAN :
        IF ok THEN mpc' = "version" /\ tty' = "raw" /\ UNCHANGED <<exitStatus, closed>>
        ELSE mpc' = "exit" /\ exitStatus' = <<1>> /\ UNCHANGED <<tty, closed>>
    /\ UNCHANGED <<img, pureVars, seqVars, engVars, histVars, late, opts, data, success, verOk>>

\* main is at the call l: the command set operation builds its frame and
\* calls sendReceiveFrame.
MainCall(l, f, sdl, fix) ==
    /\ mpc = l /\ xpc = "idle"
    /\ SendReceiveFrame(f, sdl, fix, FALSE)
    /\ UNCHANGED <<img, pureVars, seqVars, nblocks, acked, late, mainVars>>

\* What every return to main leaves alone.
MainKeeps == UNCHANGED <<img, pureVars, seqVars, issued, wlog, acked, nblocks, erased, late, opts>>

\* The answer to read-version was read in full and carried version 0.8.
VersionAnswered ==
    /\ xg.nw = 1 + FRAME_HEADER_LEN
    /\ xg.sync = STX
    /\ xg.nr = FRAME_HEADER_LEN + 16
    /\ xg.rcmd = READ_VERSION
    /\ Data(frame, 0) = 8 /\ Data(frame, 1) = 0

ReadVersionCall == MainCall("version", VersionFrame, 0, 16)

ReadVersionReturn ==
    /\ mpc = "version" /\ xpc = "ret"
    /\ verOk' = VersionAnswered
    /\ IF ReadVersionResult(ret, frame) /= 0
       THEN Finish(1)
       ELSE GoOn("version", data, FALSE, FALSE, success)
    /\ EngineIdle
    /\ MainKeeps /\ UNCHANGED <<data, success>>

\* The readConfig calls of main: address and length.
ConfigArgs(l) ==
    CASE l = "cfgUser"  -> <<0, 8>>
      [] l = "cfgRev"   -> <<5, 4>>
      [] l = "cfgWords" -> <<7, 10>>
      [] l = "cfgMui"   -> <<256, 18>>
      [] l = "cfgEui"   -> <<266, 16>>

ConfigLabels == {"cfgUser", "cfgRev", "cfgWords", "cfgMui", "cfgEui"}

ReadConfigCall ==
    \E l \in ConfigLabels :
        MainCall(l, ReadConfigFrame(ConfigArgs(l)[1], ConfigArgs(l)[2]), 0, ConfigArgs(l)[2])

\* main does not look at what readConfig returns; the bytes it stores for
\* 0x0005 are data[0..3].
ReadConfigReturn ==
    /\ \E l \in ConfigLabels :
        /\ mpc = l /\ xpc = "ret"
        /\ GoOn(l, data, FALSE, FALSE, success)
    /\ EngineIdle
    /\ MainKeeps /\ UNCHANGED <<data, success, verOk>>

ReadFlashCall ==
    \/ MainCall("flash0", ReadFlashFrame(0), 0, -1)
    \/ MainCall("flashB", ReadFlashFrame(END_BOOT), 0, -1)

\* readFlash has returned: with 0, data holds the 16 bytes of frame.data.
\* When the answer was longer than the frame, the stack behind it was
\* overwritten: the process goes on or it is killed.
ReadFlashReturn ==
    /\ \E l \in {"flash0", "flashB"} :
        /\ mpc = l /\ xpc = "ret"
        /\ \/ LET d == IF ret = 0 THEN <<Data(frame, 4), Data(frame, 5), Data(frame, 7)>>
                       ELSE data
              IN data' = d /\ GoOn(l, d, FALSE, FALSE, success)
           \/ /\ xg.nr > FRAME_MAX_LEN
              /\ mpc' = "crashed"
              /\ UNCHANGED <<data, exitStatus, closed, tty>>
    /\ EngineIdle
    /\ MainKeeps /\ UNCHANGED <<success, verOk>>

MainChecksumCall ==
    \/ MainCall("sum0", ChecksumFrame(0, END_BOOT_BYTES), 0, 2)
    \/ MainCall("sumB", ChecksumFrame(END_BOOT, END_FLASH_BYTES - END_BOOT_BYTES), 0, 2)

\* The checksum is printed, whatever calcChecksum returned.
MainChecksumReturn ==
    /\ \E l \in {"sum0", "sumB"} :
        /\ mpc = l /\ xpc = "ret"
        /\ GoOn(l, data, FALSE, FALSE, success)
    /\ EngineIdle
    /\ MainKeeps /\ UNCHANGED <<data, success, verOk>>

\* readIpSettings: readConfig(fd, 0x0000, 8, ...) and, with useMUI,
\* readConfig(fd, 0x0106, 8, ...).
ReadIpSettingsCall ==
    \/ \E l \in {"ip1", "ip3"} : MainCall(l, ReadConfigFrame(0, 8), 0, 8)
    \/ \E l \in {"ip2", "ip4"} : MainCall(l, ReadConfigFrame(262, 8), 0, 8)

\* readIpSettings does not look at what readConfig returns: when it failed,
\* configData is not initialized and useMUI is any value.
ReadIpSettingsReturn ==
    /\ \/ \E l \in {"ip1", "ip3"} :
            /\ mpc = l /\ xpc = "ret"
            /\ \E mui \in (IF ret = 0 THEN {UseMUI(Data(frame, 1))} ELSE BOOLEAN) :
                GoOn(l, data, mui, FALSE, success)
       \/ \E l \in {"ip2", "ip4"} :
            /\ mpc = l /\ xpc = "ret"
            /\ GoOn(l, data, FALSE, FALSE, success)
    /\ EngineIdle
    /\ MainKeeps /\ UNCHANGED <<data, success, verOk>>

\* if (!flashPic(fd)) success = false
FlashPicReturn ==
    /\ mpc = "flashPic" /\ pc = "done"
    /\ LET s == success /\ result = <<TRUE>>
       IN success' = s /\ GoOn("flashPic", data, FALSE, FALSE, s)
    /\ EngineIdle
    /\ MainKeeps /\ UNCHANGED <<data, verOk>>

\* The bytes writeIpSettings sends: the address 192.168.0.10/24 with --ip.
setIpAddress == <<192, 168, 0, 10>>

setMaskLen == IF opts.setIp THEN 24 ELSE 31

\* writeIpSettings: configData[8] from the globals setIp, setMacFromIp,
\* setIpAddress and setMaskLen.
\* A variant that leaves bit 5 of configData[1] as it is with setMacFromIp.
ConfigDataOfMutKeepMUI(ip, macFromIp, address, maskLen) ==
    [i \in 1..8 |->
        IF i = 2 THEN (63 - (63 % 32)) + (maskLen % 32)
        ELSE IF i % 2 = 1 /\ ip THEN address[(i + 1) \div 2]
        ELSE IF i % 2 = 1 THEN 255 ELSE 63]
\* A variant that sets the subnet length of the arguments only with setIp.
ConfigDataOfMutNoMask(ip, macFromIp, address, maskLen) ==
    LET c1 == IF macFromIp THEN 63 - 32 ELSE 63
    IN [i \in 1..8 |->
           IF i = 2 THEN (IF ip THEN (c1 - (c1 % 32)) + (maskLen % 32) ELSE c1 - 1)
           ELSE IF i % 2 = 1 /\ ip THEN address[(i + 1) \div 2]
           ELSE IF i % 2 = 1 THEN 255 ELSE 63]
ConfigDataOf(ip, macFromIp, address, maskLen) ==
    LET c1 == IF macFromIp THEN 63 - 32 ELSE 63
        c1m == (c1 - (c1 % 32)) + (maskLen % 32)
    IN [i \in 1..8 |->
           IF i = 2 THEN c1m
           ELSE IF i % 2 = 1 /\ ip THEN address[(i + 1) \div 2]
           ELSE IF i % 2 = 1 THEN 255 ELSE 63]

ConfigData == ConfigDataOf(opts.setIp, opts.setMacFromIp, setIpAddress, setMaskLen)

\* readIpSettings: what it takes from configData[8]: ip[i] = configData[i*2],
\* maskLen = configData[1]&0x1f, useMUI, and whether it prints "DHCP".
IpSettingsOf(configData) ==
    LET ip == [i \in 1..4 |-> configData[2 * i - 1]]
        maskLen == configData[2] % 32
    IN [ip |-> ip, maskLen |-> maskLen, useMUI |-> UseMUI(configData[2]),
        dhcp |-> (maskLen = DHCP_MASK_LEN \/ \A i \in 1..4 : ip[i] = 0)]

WriteIpSettingsCall == MainCall("wcfg", WriteConfigFrame(0, 8, ConfigData), 8, 1)

\* writeIpSettings has returned: true and readIpSettings, or success = false.
WriteIpSettingsReturn ==
    /\ mpc = "wcfg" /\ xpc = "ret"
    /\ LET ok == WriteConfigResult(ret, frame) = 0
           s == success /\ ok
       IN success' = s /\ GoOn("wcfg", data, FALSE, ok, s)
    /\ EngineIdle
    /\ MainKeeps /\ UNCHANGED <<data, verOk>>

ResetDeviceCall == MainCall("reset", ResetFrame, 0, 1)

\* main does not look at what resetDevice returns.
ResetDeviceReturn ==
    /\ mpc = "reset" /\ xpc = "ret"
    /\ GoOn("reset", data, FALSE, FALSE, success)
    /\ EngineIdle
    /\ MainKeeps /\ UNCHANGED <<data, success, verOk>>

\* The hex files of the run: two blocks of data, and a file that starts
\* below the boot block.
RunImages ==
    {Image(END_BOOT_BYTES, WRITE_FLASH_BLOCKSIZE + 1, "dense", "one"),
     Image(0, 0, "dense", "one")}

\* Argument combinations main accepts with a port: -v; -f FILE -d -r;
\* -f FILE -i IP -m MASK -M; -r.
Opt(v, f, i, d, r) ==
    [verbose |-> v, flash |-> f, setIp |-> i, setDhcp |-> d, setMacFromIp |-> i, reset |-> r]

Options ==
    {Opt(TRUE, FALSE, FALSE, FALSE, FALSE),
     Opt(FALSE, TRUE, FALSE, TRUE, TRUE),
     Opt(FALSE, TRUE, TRUE, FALSE, FALSE),
     Opt(FALSE, FALSE, FALSE, FALSE, TRUE)}

\* The process after its arguments were read; data is not initialized.
RunInit ==
    /\ opts \in Options
    /\ img \in (IF opts.flash THEN RunImages ELSE {Image(0, -1, "dense", "zero")})
    /\ InitFlashPic
    /\ mpc = "open"
    /\ data \in {<<171, 52, 52>>, <<174, 52, 52>>, <<0, 0, 0>>}
    /\ success = TRUE /\ exitStatus = <<>> /\ closed = 0
    /\ tty = "original" /\ verOk = FALSE

Next ==
    \/ FlashPicStart
    \/ EraseReturn
    \/ ProcessBlock
    \/ Write1Return
    \/ Write2Return
    \/ CallChecksum
    \/ ChecksumReturn
    \/ WriteSync
    \/ WriteData
    \/ ReadSync
    \/ ReadData
    \/ ReadTail

Spec == Init /\ [][Next]_vars

\* The hex files of the runs whose end is checked: first and last byte
\* given, of every length; the whole flash; a file that is refused.
LiveImages ==
    {Image(END_BOOT_BYTES, l, "ends", "one") : l \in LenOffsets}
    \cup {Image(END_BOOT_BYTES, END_FLASH_BYTES - END_BOOT_BYTES - 2, "ends", "one"),
          Image(END_BOOT_BYTES - 16, WRITE_FLASH_BLOCKSIZE + 1, "dense", "one")}

LiveInit ==
    /\ img \in LiveImages
    /\ InitFlashPic
    /\ mpc = "flashPic"
    /\ opts = [verbose |-> FALSE, flash |-> TRUE, setIp |-> FALSE, setDhcp |-> FALSE,
               setMacFromIp |-> FALSE, reset |-> FALSE]
    /\ data = <<0, 0, 0>> /\ success = TRUE /\ exitStatus = <<>> /\ closed = 0
    /\ tty = "raw" /\ verOk = TRUE

\* flashPic with the fairness of a sequential program: a step that can be
\* taken is taken (every transport call comes back, poll has a timeout).
LiveSpec == LiveInit /\ [][Next]_vars /\ WF_vars(Next)

RunNext ==
    \/ OpenSerial
    \/ ReadVersionCall
    \/ ReadVersionReturn
    \/ ReadConfigCall
    \/ ReadConfigReturn
    \/ ReadFlashCall
    \/ ReadFlashReturn
    \/ MainChecksumCall
    \/ MainChecksumReturn
    \/ ReadIpSettingsCall
    \/ ReadIpSettingsReturn
    \/ FlashPicReturn
    \/ WriteIpSettingsCall
    \/ WriteIpSettingsReturn
    \/ ResetDeviceCall
    \/ ResetDeviceReturn
    \/ Next

RunSpec == RunInit /\ [][RunNext]_vars

\* ------------------------------------- operations applied on their own
\* Lengths given to eraseFlash: the lowest and the highest of 16 bits.
MaxEraseLen == 100

EraseLens == (0..MaxEraseLen) \cup ((U16 - 1 - MaxEraseLen)..(U16 - 1))

\* Octets of the addresses given with --ip.
Octets == {0, 1, 63, 255}

\* The arguments main lets pass (line 894 and parse_opt): --ip with --mask
\* and possibly --macip, an address that is not 0.0.0.0, or neither of them.
IpArguments ==
    {[setIp |-> TRUE, setMacFromIp |-> m, setIpAddress |-> a, setMaskLen |-> l] :
        m \in BOOLEAN,
        a \in {x \in [1..4 -> Octets] : \E i \in 1..4 : x[i] /= 0},
        l \in 0..MAX_MASK_LEN}
    \cup {[setIp |-> FALSE, setMacFromIp |-> FALSE, setIpAddress |-> <<0, 0, 0, 0>>,
            setMaskLen |-> DHCP_MASK_LEN]}

\* Configuration blocks a device may hold that the tool did not write.
DeviceBlocks ==
    {<<255, 63, 255, 63, 255, 63, 255, 63>>,
     <<0, 24, 0, 63, 0, 63, 0, 63>>,
     <<10, 255, 0, 0, 0, 0, 1, 0>>}

FnInit ==
    /\ img = Image(0, -1, "dense", "zero")
    /\ InitFlashPic
    /\ mpc = "open"
    /\ opts = Opt(FALSE, FALSE, FALSE, FALSE, FALSE)
    /\ data = <<0, 0, 0>> /\ success = TRUE /\ exitStatus = <<>> /\ closed = 0
    /\ tty = "original" /\ verOk = FALSE

FnKeeps == UNCHANGED <<img, seqVars, engVars, histVars, late, mainVars>>

\* eraseFlash(fd, address, len) up to its call of sendReceiveFrame.
EraseFlashFrame ==
    /\ fn = <<>>
    /\ \E l \in EraseLens :
        /\ fn' = <<"eraseFlash", END_BOOT, l>>
        /\ fnOut' = <<EraseFrame(END_BOOT, l)>>
    /\ FnKeeps

\* writeIpSettings up to its call of writeConfig.
WriteIpSettingsBlock ==
    /\ fn = <<>>
    /\ \E a \in IpArguments :
        /\ fn' = <<"writeIpSettings", a>>
        /\ fnOut' = <<ConfigDataOf(a.setIp, a.setMacFromIp, a.setIpAddress, a.setMaskLen)>>
    /\ FnKeeps

\* readIpSettings on the block writeIpSettings has built.
ReadIpSettingsBack ==
    /\ fn /= <<>> /\ fn[1] = "writeIpSettings"
    /\ fn' = <<"readIpSettings", fnOut[1], fn[2]>>
    /\ fnOut' = <<IpSettingsOf(fnOut[1])>>
    /\ FnKeeps

\* readIpSettings on a block of the device.
ReadIpSettingsBlock ==
    /\ fn = <<>>
    /\ \E b \in DeviceBlocks :
        /\ fn' = <<"readIpSettings", b>>
        /\ fnOut' = <<IpSettingsOf(b)>>
    /\ FnKeeps

FnNext ==
    \/ EraseFlashFrame
    \/ WriteIpSettingsBlock
    \/ ReadIpSettingsBack
    \/ ReadIpSettingsBlock

FnSpec == FnInit /\ [][FnNext]_vars

\* ------------------------------------------------------------ the claims
\* The exchange in xg was carried out in full: the sync byte and the whole
\* request were written, the sync byte 0x55, the header and the expected
\* payload were read, and the answer echoes the request's command.
ExchangeComplete ==
    /\ xg.nw = 1 + FRAME_HEADER_LEN + sendDataLen
    /\ xg.sync = 85
    /\ xg.nr = FRAME_HEADER_LEN + xg.fix
    /\ xg.rcmd = Command(xg.req)

\* The 16-bit value the device reported in the two payload bytes it delivered.
ReportedSum == Data(frame, 0) + 256 * Data(frame, 1)

\* The addresses in lo .. hi-1 at which the image holds data.
DataAddrs(im, lo, hi) ==
    IF ImageEmpty(im) THEN {}
    ELSE IF im.pat = "dense"
         THEN {a \in lo..(hi - 1) : a >= im.start /\ a <= im.start + im.len}
         ELSE {a \in {im.start, im.start + im.len} : a >= lo /\ a < hi}

RECURSIVE SumOver(_, _)
SumOver(im, S) ==
    IF S = {} THEN 0
    ELSE LET a == CHOOSE x \in S : TRUE
         IN (IF a % 2 = 1 THEN 256 * (DataAt(im, a) - 63) ELSE DataAt(im, a) - 255)
            + SumOver(im, S \ {a})

\* The checksum of the bytes lo .. hi-1 as a function of the image and the
\* pad pattern alone: every even address counts its byte (0xFF where the
\* image has none), every odd address its byte (0x3F) times 256, modulo 2^16.
RefChecksum(im, lo, hi) ==
    LET evens == ((hi + 1) \div 2) - ((lo + 1) \div 2)
        odds == (hi \div 2) - (lo \div 2)
    IN (evens * 255 + odds * 63 * 256 + SumOver(im, DataAddrs(im, lo, hi))) % 65536

\* Some address of the 32-byte block at b holds image data.
BlockHasData(im, b) == \E a \in b..(b + 31) : HasData(im, a)

\* C1: flashPic returns true only if the checksum command completed and the
\* 16-bit value the device reported equals the host checksum accumulated over
\* every byte of every processed block; in every other outcome it returns false.
C1_SuccessOnlyOnVerifiedChecksum ==
    pc = "done" =>
        (result = <<TRUE>>
            <=> /\ Command(xg.req) = 8
                /\ ExchangeComplete
                /\ ReportedSum = checkSum
                /\ checkSum = RefChecksum(img, StartAddress(img), blockStart))

\* C2: the word range [start/2, start/2 + 32 * data_length) of the erase frame
\* contains every word a write-flash frame of the run targets and every word
\* for which the image holds data.
C2_EraseCoversTarget ==
    /\ (xpc /= "idle" /\ Command(xg.req) = 2) =>
          /\ erased /= <<>>
          /\ erased[1] <= AddressWord(xg.req)
          /\ AddressWord(xg.req) + DataLength(xg.req) \div 2 <= erased[2]
    /\ erased /= <<>> =>
          \A a \in {StartAddress(img), EndAddress(img)} :
              erased[1] <= a \div 2 /\ a \div 2 < erased[2]

\* C3: a write-flash frame is sent for a block if and only if the image holds
\* a byte inside that block: no write-flash frame is ever sent for a blank
\* block, and a pass of the loop over a non-blank block sends one.
C3_WriteIffNotBlank ==
    /\ [][issued'[2] /= issued[2] =>
            /\ Command(frame') = 2
            /\ DataLength(frame') = 32
            /\ BlockHasData(img, 2 * AddressWord(frame'))]_vars
    /\ [][(pc = "loop" /\ pc' /= "checksum") =>
            ((issued'[2] = issued[2] + 1 /\ 2 * AddressWord(frame') = blockStart)
                <=> BlockHasData(img, blockStart))]_vars

C3_Witness ==
    /\ pc = "write1" /\ nblocks = 2
    /\ ~BlockHasData(img, blockStart - 32)
    /\ BlockHasData(img, blockStart)

\* C4: at most two write-flash frames are sent per block, the second only
\* after the first failed and equal to the first; a block whose first or
\* second write succeeds is followed by the next block; after two failures
\* flashPic returns false and sends nothing more.
C4_OneRetryPerBlock ==
    /\ [](wlog.n <= 2)
    /\ [][(issued'[2] /= issued[2] /\ wlog'.n = 2) =>
            /\ pc = "write1" /\ xpc = "ret"
            /\ WriteFlashResult(ret, frame) /= 0
            /\ frame' = wlog.first]_vars
    /\ [][(pc \in {"write1", "write2"} /\ xpc = "ret" /\ WriteFlashResult(ret, frame) = 0) =>
            /\ pc' = "loop"
            /\ blockStart' = blockStart + 32
            /\ issued' = issued]_vars
    /\ [][(pc = "write2" /\ xpc = "ret" /\ WriteFlashResult(ret, frame) /= 0) =>
            /\ pc' = "done" /\ result' = <<FALSE>>
            /\ issued' = issued]_vars
    /\ [][pc = "done" => (issued' = issued /\ pc' = "done")]_vars

C4_Witness ==
    /\ pc = "done" /\ result = <<FALSE>>
    /\ wlog.n = 2 /\ nblocks = 1
    /\ msg = "unable to write flash"

\* C5: the frames of a run that passes the address checks come in the order
\* erase, write, checksum: exactly one erase-flash frame, before every
\* write-flash frame; no write-flash frame unless eraseFlash returned 0; at
\* most one checksum frame, only when the block cursor has passed the end
\* address, and no frame after it.
C5_EraseProgramVerifyOrder ==
    /\ [](issued[3] <= 1 /\ issued[8] <= 1)
    /\ []((pc /= "start" /\ msg \notin {"unable to read file", "invalid address range",
                                          "unexpected start address in file"})
            => issued[3] = 1)
    /\ []((issued[2] > 0 \/ issued[8] > 0) => (issued[3] = 1 /\ eraseRes = <<0>>))
    /\ [](issued[8] > 0 => ~(blockStart < EndAddress(img)))
    /\ [][issued'[2] /= issued[2] => issued[8] = 0]_vars
    /\ [][issued[8] > 0 => issued' = issued]_vars

C5_Witness ==
    /\ pc = "done" /\ issued[3] = 1 /\ issued[2] = 4 /\ issued[8] = 1

\* C6: an image whose start is below 0x0800, whose end is at or above 0x8000,
\* whose end is below its start, whose start is not a multiple of 16 or whose
\* first cursor address is not 0x0800 makes flashPic return false without
\* sending any frame; the image 0x0800..0x7FFE passes the checks.
C6_RangeCheck ==
    /\ (pc /= "start" /\ ~ImageEmpty(img)
        /\ (\/ StartAddress(img) < 2048
            \/ EndAddress(img) >= 32768
            \/ EndAddress(img) < StartAddress(img)
            \/ StartAddress(img) % 16 /= 0
            \/ Begin(img) /= 2048))
       => /\ pc = "done" /\ result = <<FALSE>>
          /\ xpc = "idle"
          /\ \A c \in DOMAIN issued : issued[c] = 0
    /\ (pc /= "start" /\ StartAddress(img) = 2048 /\ EndAddress(img) = 32766)
       => issued[3] = 1

C6_Witness ==
    /\ pc = "done" /\ result = <<FALSE>>
    /\ StartAddress(img) = 2048 /\ EndAddress(img) = 32768

\* C7: the host checksum is a function of the image, the address range and
\* the pad pattern only: whichever blocks were skipped as blank and whichever
\* writes were repeated, at every pass of the loop and at its end it is the
\* checksum of the bytes from the start address to the block cursor.
C7_ChecksumIndependentOfWrites ==
    (pc = "loop" \/ pc = "checksum" \/ (pc = "done" /\ issued[8] = 1))
        => checkSum = RefChecksum(img, StartAddress(img), blockStart)

C7_Witness ==
    /\ pc = "checksum"
    /\ img.pat = "ends" /\ img.len = 65 /\ img.val = "one"
    /\ nblocks = 3 /\ issued[2] = 4

\* C8: the checksum frame has address start/2 and byte length 32 times the
\* number of blocks processed, which is the range from the start address to
\* the final block boundary, and the host checksum is the sum of one value
\* per byte of that range.
C8_ChecksumRange ==
    (pc = "checksum" /\ xpc /= "idle") =>
        /\ Command(xg.req) = 8
        /\ AddressWord(xg.req) = StartAddress(img) \div 2
        /\ DataLength(xg.req) = 32 * nblocks
        /\ StartAddress(img) + DataLength(xg.req) = blockStart
        /\ checkSum = RefChecksum(img, StartAddress(img),
                                  StartAddress(img) + DataLength(xg.req))

C8_Witness ==
    /\ pc = "checksum" /\ xpc = "ret" /\ ret = 0
    /\ nblocks = 3 /\ img.pat = "dense"

\* C9: sendReceiveFrame does not return 0 when the command byte of the answer
\* differs from the command of the request as it was when sendReceiveFrame
\* was called, whatever else the answer holds.
C9_EchoMismatchRejected ==
    (xpc = "ret" /\ xg.rcmd /= -1 /\ xg.rcmd /= Command(xg.req)) => ret /= 0

C9_Witness ==
    /\ xpc = "ret" /\ ret = -1
    /\ xg.sync = 85 /\ xg.nr = FRAME_HEADER_LEN + xg.fix
    /\ Data(frame, 0) = 1
    /\ xg.rcmd /= Command(xg.req)
    /\ Command(xg.req) = 2

\* C10: sendReceiveFrame returns 0 only when the exchange was carried out in
\* full; a failure or a timeout in any phase, the write of the first sync
\* byte included, gives a result other than 0.
C10_ZeroOnlyWhenComplete ==
    (xpc = "ret" /\ ret = 0) => ExchangeComplete

\* C11: in every exchange, whatever the device answers, at most 9 + 64 = 73
\* bytes of the frame buffer are written to the device and at most 73 bytes
\* are read into it, with a payload length fixed by the caller and with one
\* taken from the data_length of the answer (read-flash).
C11_FrameSizeBound ==
    /\ xg.nw <= 1 + 73
    /\ xg.nr <= 73
    /\ (xpc \in {"dataW", "dataR"} => len <= 73)

\* The answer to the read-version request in xg was read in full, echoes the
\* command and carries minor version 0x08 and major version 0x00.
VersionExchangeOk ==
    /\ xg.nw = 10 /\ xg.sync = 85 /\ xg.nr = 25
    /\ xg.req[1] = 0 /\ xg.rcmd = 0
    /\ frame[10] = 8 /\ frame[11] = 0

\* C12: an erase-flash, write-flash, write-config or reset frame is handed to
\* the transport only after a read-version exchange of the session was
\* completed with minor version 0x08 and major version 0x00; when the
\* read-version exchange fails or carries another version, the run ends with
\* the port closed and without a further frame.
C12_VersionGate ==
    /\ [](\A c \in {3, 2, 7, 9} : issued[c] > 0 => verOk)
    /\ [][(mpc = "version" /\ xpc = "ret")
            => /\ verOk' = VersionExchangeOk
               /\ ~VersionExchangeOk
                    => /\ mpc' = "exit" /\ exitStatus' /= <<0>>
                       /\ closed' = closed + 1 /\ tty' = "original"
                       /\ issued' = issued]_vars
    /\ [][(mpc = "exit") => (issued' = issued)]_vars

C12_Witness ==
    /\ mpc = "reset" /\ xpc = "dataW" /\ verOk
    /\ issued[3] = 1 /\ issued[2] > 0 /\ issued[7] = 1 /\ issued[9] = 1

\* C13: the process ends with exit status 0 only when every requested
\* operation succeeded: a failed flashPic or a failed writeIpSettings gives a
\* status other than 0.
C13_ExitStatus ==
    (mpc = "exit" /\ exitStatus = <<0>>) => success

\* C14: after an exchange that failed with a transport error (a transport call
\* returned a negative count) the run starts no further exchange and ends,
\* except for the second attempt of a write-flash.
C14_TransportErrorAborts ==
    [][(xpc = "ret" /\ xg.err /\ xpc' /= "ret")
        => \/ mpc' \in {"exit", "crashed"}
           \/ (pc = "write1" /\ xpc' = "syncW" /\ frame'[1] = 2)]_vars

C16_Termination ==
    /\ [][(xpc \in {"dataW", "dataR"}) => (xpc' = "ret" \/ pos' > pos)]_vars
    /\ [](xpc \in {"dataW", "dataR"} => (pos < len /\ len <= 73))
    /\ [](issued[3] <= 1 /\ wlog.n <= 2 /\ issued[8] <= 1)
    /\ [](pc = "done" => (xpc \in {"idle", "ret"} /\ result \in {<<TRUE>>, <<FALSE>>}))
    /\ <>(pc = "done")

C16_Witness ==
    /\ pc = "done" /\ result = <<FALSE>> /\ msg = "unable to read checksum"
    /\ xg.nw = 10 /\ xg.nr = 10 /\ ~xg.err
    /\ nblocks = 3 /\ wlog.n = 2

\* C17: when an exchange is started, no answer to an earlier request is
\* still to come or waiting on the line, and the bytes an exchange accepts
\* as its answer are the device's answer to its own request.
C17_NoStaleAnswer ==
    /\ xpc = "syncW" => late = <<>>
    /\ (xpc = "ret" /\ ret = 0 /\ xg.nr > 0) => xg.own

\* C18: in every frame handed to the transport the guard key bytes are
\* (0x55, 0xAA) if and only if the command is write-config, write-flash or
\* erase-flash; read-version, read-config, read-flash, checksum and reset
\* frames carry two zero key bytes.
C18_GuardKeys ==
    xpc /= "idle" =>
        /\ xg.req[1] \in {0, 1, 2, 3, 6, 7, 8, 9}
        /\ (xg.req[4] = 85 /\ xg.req[5] = 170) <=> xg.req[1] \in {7, 2, 3}
        /\ xg.req[1] \in {0, 6, 1, 8, 9} => (xg.req[4] = 0 /\ xg.req[5] = 0)

C18_Witness ==
    /\ mpc = "reset" /\ xpc = "syncR" /\ xg.nw = 10
    /\ xg.req[1] = 9 /\ issued[7] = 1 /\ issued[2] > 0 /\ issued[1] = 2

C20_EraseStatus ==
    [][(pc = "erase" /\ xpc = "ret")
        => /\ eraseRes' = <<0>> <=> (ExchangeComplete /\ frame[10] = 1)
           /\ (ExchangeComplete /\ frame[10] /= 1)
                => /\ eraseRes' = <<0 - (frame[10] + 1)>>
                   /\ pc' = "done" /\ result' = <<FALSE>>
                   /\ msg' = "erasing flash failed" /\ msgArg' = <<frame[10]>>]_vars

C20_Witness ==
    /\ pc = "done" /\ result = <<FALSE>> /\ msg = "erasing flash failed"
    /\ ExchangeComplete /\ frame[10] = 254
    /\ eraseRes = <<-255>> /\ msgArg = <<254>>

\* The least number of blocks of d bytes that hold n bytes.
CeilDiv(n, d) == IF n % d = 0 THEN n \div d ELSE (n \div d) + 1

\* C21: the data_length of the erase-flash frame eraseFlash builds is
\* ceil(len / 32) for every 16-bit len: 0 for 0, 1 for 32, 2 for 33, 4 for
\* 100, 2048 for 65535; the sum len + 31 is not cut to 16 bits.
C21_EraseBlockCount ==
    (fn /= <<>> /\ fn[1] = "eraseFlash") =>
        /\ Command(fnOut[1]) = ERASE_FLASH
        /\ DataLength(fnOut[1]) = CeilDiv(fn[3], ERASE_FLASH_BLOCKSIZE)
        /\ DataLength(fnOut[1]) * ERASE_FLASH_BLOCKSIZE >= fn[3]
        /\ (fn[3] = 0 => DataLength(fnOut[1]) = 0)
        /\ (fn[3] = 32 => DataLength(fnOut[1]) = 1)
        /\ (fn[3] = 33 => DataLength(fnOut[1]) = 2)
        /\ (fn[3] = 100 => DataLength(fnOut[1]) = 4)

C21_Witness ==
    /\ fn = <<"eraseFlash", END_BOOT, U16 - 1>>
    /\ DataLength(fnOut[1]) = 2048

\* C22: a reset frame is issued at most once and only in a run in which
\* reset was requested, flashPic, if requested, has returned true and
\* writeIpSettings, if requested, has returned true (its writeConfig
\* returned 0); no frame is issued after the reset frame; and whatever the
\* reset exchange returns, the run ends through closeSerial with the status
\* and the success it had.
C22_ResetOnlyAfterSuccess ==
    /\ [](issued[9] <= 1)
    /\ [](issued[9] > 0 =>
            /\ opts.reset /\ success
            /\ opts.flash => (pc = "done" /\ result = <<TRUE>>)
            /\ (opts.setIp \/ opts.setDhcp) => issued[7] = 1)
    /\ [][(mpc = "flashPic" /\ pc = "done" /\ result /= <<TRUE>>) => ~success']_vars
    /\ [][(mpc = "wcfg" /\ xpc = "ret" /\ WriteConfigResult(ret, frame) /= 0) => ~success']_vars
    /\ [][(~success) => ~success']_vars
    /\ [][(issued[9] > 0) => (issued' = issued)]_vars
    /\ [][(mpc = "reset" /\ xpc = "ret")
            => (mpc' = "exit" /\ exitStatus' = <<0>> /\ closed' = closed + 1
                /\ success' = success)]_vars

\* The reset frame of a run with -f, -d and -r was written and the device
\* has not answered it.
C22_Witness ==
    /\ mpc = "reset" /\ xpc = "ret" /\ ret = -1 /\ xg.nw = 10 /\ xg.nr = 0
    /\ opts.reset /\ opts.flash /\ opts.setDhcp /\ success
    /\ issued[9] = 1 /\ issued[7] = 1 /\ issued[8] = 1 /\ issued[2] > 0

\* readIpSettings was applied to the block writeIpSettings built from the
\* arguments fn[3].
ReadBack == Len(fn) = 3 /\ fn[1] = "readIpSettings"

ErasedBlock == [i \in 1..8 |-> IF i % 2 = 1 THEN 255 ELSE 63]

\* C24: readIpSettings takes DHCP and the MUI from the all-erased block, and
\* the block writeIpSettings builds without address and subnet length
\* (--dhcp alone) is that block.
C24_ErasedBlockIsDhcp ==
    /\ (fn /= <<>> /\ fn[1] = "readIpSettings" /\ fn[2] = ErasedBlock)
            => (fnOut[1].dhcp /\ fnOut[1].useMUI /\ fnOut[1].maskLen = 31)
    /\ (fn /= <<>> /\ fn[1] = "writeIpSettings" /\ ~fn[2].setIp)
            => fnOut[1] = ErasedBlock

C24_Witness ==
    /\ ReadBack /\ ~fn[3].setIp
    /\ fn[2] = <<255, 63, 255, 63, 255, 63, 255, 63>>
    /\ fnOut[1].dhcp /\ fnOut[1].useMUI

\* C25: when flashPic has returned true, every byte the image holds, the
\* byte at its end address included, is in the payload of a write-flash
\* frame for its address that the device answered with COMMAND_SUCCESS; also
\* for an image of one byte and for one whose end is a multiple of 32
\* behind its start.
C25_EveryByteProgrammed ==
    (pc = "done" /\ result = <<TRUE>>) =>
        \A a \in DataAddrs(img, StartAddress(img), EndAddress(img) + 1) :
            \E w \in acked :
                /\ 2 * w.addr <= a /\ a < 2 * w.addr + Len(w.payload)
                /\ w.payload[a - 2 * w.addr + 1] = DataAt(img, a)

\* C26: flashPic takes a block for written (goes on to the next block) only
\* when the write-flash exchange that has just returned was carried out in
\* full and the status byte read from the device is 0x01.
C26_WriteAckFromDevice ==
    [][(pc \in {"write1", "write2"} /\ xpc = "ret" /\ pc' = "loop")
        => (Command(xg.req) = 2 /\ ExchangeComplete /\ Data(frame, 0) = 1)]_vars

====
